---------------------------- MODULE Spec2Model ----------------------------
(***************************************************************************)
(* MiniLang: lexer (src/lexical.py), recursive-descent parser              *)
(* (src/parser.py), semantic analyzer and tree-walking executor            *)
(* (src/semantic.py), and the driver process_code (src/main.py).           *)
(*                                                                         *)
(* Characters are one-character strings; a source text is a sequence of    *)
(* characters.  Python's None is the string "None" where a node or token   *)
(* value is absent, and the record NoneV among runtime values.  The value  *)
(* attribute of tokens and nodes is split by type, since TLC cannot        *)
(* compare an integer with a string: value holds a text (or None), number  *)
(* holds the integer of a NUMBER token or node (whose value is then None). *)
(***************************************************************************)
EXTENDS Integers, Sequences, FiniteSets, TLC

VARIABLES
    source,     \* the text handed to tokenize (StringIO contents)
    lexer,      \* the Lexer object: pos (StringIO cursor), buffer, current_char, line, column, errors
    tokens,     \* tokenize's local list of tokens
    tok_at,     \* history: for each token, the source index of the first character of its lexeme
    err_at,     \* history: for each lexical error, the source index where the offending lexeme starts
    result,     \* what tokenize returned
    ast,        \* the PROGRAM node built by Parser.parse; SemanticAnalyzer.ast
    failure,    \* the exception process_code caught: its kind, line and message
    symbols,    \* SemanticAnalyzer.symbol_table.symbols: name -> value
    errors,     \* SemanticAnalyzer.errors
    analysis,   \* what analyze returned: "True" or "False"; None before it is called
    output,     \* SemanticAnalyzer.output
    todo,       \* the executor's pending nodes, innermost call first (its call stack)
    iters,      \* while-body executions started so far
    trace,      \* history: one event per node executed: its type, path, node and the value evaluated
    prev,       \* history: symbols and output before the last executor step
    phase       \* where the pipeline stands

lexvars == <<source, lexer, tokens, tok_at, err_at, result>>
semvars == <<ast, failure, symbols, errors, analysis, output, todo, iters, trace, prev>>
vars == <<source, lexer, tokens, tok_at, err_at, result, ast, failure, symbols, errors, analysis,
          output, todo, iters, trace, prev, phase>>

-----------------------------------------------------------------------------
(* Bounds *)

MaxLen == 3        \* longest source text enumerated for the lexer
MaxErrors == 5     \* cap on the lexer's error list (a scan that stops advancing appends for ever)
MaxIter == 3       \* cap on the while-body executions of one run (a loop may never end)
MaxNum == 2        \* largest integer literal of the enumerated programs

-----------------------------------------------------------------------------
(* Lexer: character classes *)

None == "None"

Digits == {"0", "1", "2", "3", "4", "5", "6", "7", "8", "9"}
Letters == {"a", "b", "c", "d", "e", "f", "g", "h", "i", "j", "k", "l", "m",
            "n", "o", "p", "q", "r", "s", "t", "u", "v", "w", "x", "y", "z"}
Whitespace == {" ", "\n", "\t"}
OperatorStart == {"+", "-", "*", "/", "=", "!", "<", ">", "(", ")", "{", "}", ";"}

isspace(c) == c \in Whitespace
isdigit(c) == c \in Digits
isalpha(c) == c \in Letters
isalnum(c) == c \in Letters \cup Digits

DigitValue(c) ==
    CASE c = "0" -> 0 [] c = "1" -> 1 [] c = "2" -> 2 [] c = "3" -> 3 [] c = "4" -> 4
      [] c = "5" -> 5 [] c = "6" -> 6 [] c = "7" -> 7 [] c = "8" -> 8 [] c = "9" -> 9

KEYWORDS == {"if", "else", "while", "pout"}

upper(s) ==
    CASE s = "if" -> "IF" [] s = "else" -> "ELSE" [] s = "while" -> "WHILE" [] s = "pout" -> "POUT"

OPERATORS ==
    [op \in {"+", "-", "*", "/", "=", "==", "!=", "<", ">", "<=", ">=", "(", ")", "{", "}", ";"} |->
        CASE op = "+" -> "PLUS" [] op = "-" -> "MINUS" [] op = "*" -> "MULTIPLY"
          [] op = "/" -> "DIVIDE" [] op = "=" -> "ASSIGN" [] op = "==" -> "EQUALS"
          [] op = "!=" -> "NOT_EQUALS" [] op = "<" -> "LESS_THAN" [] op = ">" -> "GREATER_THAN"
          [] op = "<=" -> "LESS_EQUAL" [] op = ">=" -> "GREATER_EQUAL" [] op = "(" -> "LPAREN"
          [] op = ")" -> "RPAREN" [] op = "{" -> "LBRACE" [] op = "}" -> "RBRACE"
          [] op = ";" -> "SEMICOLON"]

Token(token_type, line, column, value) ==
    [token_type |-> token_type, value |-> value, number |-> 0, line |-> line, column |-> column]

\* Token('NUMBER', line, column, n) for an integer n.
NumberToken(line, column, n) ==
    [token_type |-> "NUMBER", value |-> None, number |-> n, line |-> line, column |-> column]

\* "return None" of read_number and read_operator: no token.
NoToken == Token(None, 0, 0, None)

-----------------------------------------------------------------------------
(* Lexer: the scanner.  L is the Lexer object's state. *)

\* StringIO.read(1) at cursor p: the next character, or "" at end of input.
Read(p) == IF p < Len(source) THEN source[p + 1] ELSE ""

\* Source index of current_char (the characters read and not pushed back).
CurIndex(L) == L.pos - Len(L.buffer)

\* Characters not yet consumed, current_char included.
Remaining(L) == IF L.current_char = "" THEN 0 ELSE Len(source) - CurIndex(L) + 1

NewLexer ==
    [pos |-> 0, buffer |-> <<>>, current_char |-> None, line |-> 1, column |-> 1, errors |-> <<>>]

advance(L) ==
    LET fromBuffer == L.buffer # <<>>
        ch == IF fromBuffer THEN Head(L.buffer) ELSE Read(L.pos)
        p  == IF fromBuffer \/ ch = "" THEN L.pos ELSE L.pos + 1
    IN  [L EXCEPT !.current_char = ch,
                  !.buffer = IF fromBuffer THEN Tail(L.buffer) ELSE L.buffer,
                  !.pos = p,
                  !.line = IF ch = "\n" THEN L.line + 1 ELSE L.line,
                  !.column = IF ch = "\n" THEN 1 ELSE L.column + 1]

\* peek returns the pair (character, lexer after the look-ahead was buffered).
peek(L) ==
    IF L.buffer = <<>>
    THEN LET char == Read(L.pos)
         IN  [char |-> char,
              L |-> IF char # "" THEN [L EXCEPT !.buffer = <<char>>, !.pos = L.pos + 1] ELSE L]
    ELSE [char |-> Head(L.buffer), L |-> L]

error(L, message, char) ==
    [L EXCEPT !.errors = Append(L.errors,
        [line |-> L.line, column |-> L.column - 1, message |-> message, char |-> char])]

RECURSIVE skip_whitespace(_)
skip_whitespace(L) ==
    IF L.current_char # "" /\ isspace(L.current_char) THEN skip_whitespace(advance(L)) ELSE L

\* The digit run of read_number: the lexer after it, the value int(result) of the digits.
RECURSIVE DigitRun(_, _)
DigitRun(L, n) ==
    IF L.current_char # "" /\ isdigit(L.current_char)
    THEN DigitRun(advance(L), n * 10 + DigitValue(L.current_char))
    ELSE [L |-> L, value |-> n]

\* read_number returns (token or None, lexer).
read_number(L) ==
    LET start_column == L.column - 1
        run == DigitRun(L, 0)
        c == run.L.current_char
    IN  IF c # "" /\ (isalpha(c) \/ c = "_")
        THEN [token |-> NoToken, L |-> error(run.L, "Identifiers cannot start with a number", "")]
        ELSE [token |-> NumberToken(run.L.line, start_column, run.value), L |-> run.L]

RECURSIVE WordRun(_, _)
WordRun(L, text) ==
    IF L.current_char # "" /\ (isalnum(L.current_char) \/ L.current_char = "_")
    THEN WordRun(advance(L), text \o L.current_char)
    ELSE [L |-> L, text |-> text]

read_identifier(L) ==
    LET start_column == L.column - 1
        run == WordRun(L, "")
    IN  IF run.text \in KEYWORDS
        THEN [token |-> Token(upper(run.text), run.L.line, start_column, run.text), L |-> run.L]
        ELSE [token |-> Token("IDENTIFIER", run.L.line, start_column, run.text), L |-> run.L]

read_operator(L) ==
    LET start_column == L.column - 1
        current == L.current_char
        pk == peek(L)
        two == current \o pk.char
    IN  IF two \in DOMAIN OPERATORS
        THEN LET L2 == advance(advance(pk.L))
             IN  [token |-> Token(OPERATORS[two], L2.line, start_column, two), L |-> L2]
        ELSE IF current \in DOMAIN OPERATORS
        THEN LET L1 == advance(pk.L)
             IN  [token |-> Token(OPERATORS[current], L1.line, start_column, current), L |-> L1]
        ELSE [token |-> NoToken, L |-> error(pk.L, "Invalid operator", current)]

RECURSIVE CommentRun(_)
CommentRun(L) ==
    IF L.current_char # "" /\ L.current_char # "\n" THEN CommentRun(advance(L)) ELSE L

skip_comment(L) ==
    LET L1 == CommentRun(L)
    IN  IF L1.current_char # "" THEN advance(L1) ELSE L1

-----------------------------------------------------------------------------
(* Lexer actions: one per branch of next_token's loop body, taken while    *)
(* tokenize's loop is running (phase "scan").  A branch that returns a     *)
(* token also performs tokenize's append.                                  *)

Emit(r, at) ==
    /\ lexer' = r.L
    /\ IF r.token = NoToken
       THEN /\ tokens' = tokens
            /\ tok_at' = tok_at
            /\ err_at' = Append(err_at, at)
       ELSE /\ tokens' = Append(tokens, r.token)
            /\ tok_at' = Append(tok_at, at)
            /\ err_at' = err_at

Scanning == phase = "scan" /\ Len(lexer.errors) < MaxErrors

ScanWhitespace ==
    /\ Scanning
    /\ lexer.current_char # "" /\ isspace(lexer.current_char)
    /\ lexer' = skip_whitespace(lexer)
    /\ UNCHANGED <<source, tokens, tok_at, err_at, result, phase>>
    /\ UNCHANGED semvars

ScanNumber ==
    /\ Scanning
    /\ isdigit(lexer.current_char)
    /\ Emit(read_number(lexer), CurIndex(lexer))
    /\ UNCHANGED <<source, result, phase>>
    /\ UNCHANGED semvars

ScanIdentifier ==
    /\ Scanning
    /\ isalpha(lexer.current_char)
    /\ Emit(read_identifier(lexer), CurIndex(lexer))
    /\ UNCHANGED <<source, result, phase>>
    /\ UNCHANGED semvars

ScanOperator ==
    /\ Scanning
    /\ lexer.current_char \in OperatorStart
    /\ Emit(read_operator(lexer), CurIndex(lexer))
    /\ UNCHANGED <<source, result, phase>>
    /\ UNCHANGED semvars

ScanComment ==
    /\ Scanning
    /\ lexer.current_char = "#"
    /\ lexer' = skip_comment(lexer)
    /\ UNCHANGED <<source, tokens, tok_at, err_at, result, phase>>
    /\ UNCHANGED semvars

ScanInvalid ==
    /\ Scanning
    /\ lexer.current_char \notin {""} \cup Whitespace \cup Digits \cup Letters \cup OperatorStart \cup {"#"}
    /\ lexer' = advance(error(lexer, "Invalid character", lexer.current_char))
    /\ err_at' = Append(err_at, CurIndex(lexer))
    /\ UNCHANGED <<source, tokens, tok_at, result, phase>>
    /\ UNCHANGED semvars

\* next_token falls out of its loop and returns EOF; tokenize appends it, leaves
\* its own loop and returns the tokens, or [] when an error was recorded.
ScanEOF ==
    /\ phase = "scan"
    /\ lexer.current_char = ""
    /\ tokens' = Append(tokens, Token("EOF", lexer.line, lexer.column, None))
    /\ result' = IF lexer.errors = <<>> THEN tokens' ELSE <<>>
    /\ phase' = "lexed"
    /\ UNCHANGED <<source, lexer, tok_at, err_at>>
    /\ UNCHANGED semvars

NextLex ==
    \/ ScanWhitespace
    \/ ScanNumber
    \/ ScanIdentifier
    \/ ScanOperator
    \/ ScanComment
    \/ ScanInvalid
    \/ ScanEOF

-----------------------------------------------------------------------------
(* Parser (src/parser.py).  A parse function takes the token list and the   *)
(* 1-based index of current_token and returns the node built and the index *)
(* after it, or the syntax error raised (line and message).                *)

ASTNode(node_type, value, children) ==
    [node_type |-> node_type, value |-> value, number |-> 0, children |-> children]

\* ASTNode("NUMBER", n) for an integer n.
NumberNode(n) == [node_type |-> "NUMBER", value |-> None, number |-> n, children |-> <<>>]

NoNode == ASTNode(None, None, <<>>)

Ok(node, i) == [ok |-> TRUE, node |-> node, i |-> i, line |-> 0, message |-> ""]

\* Parser.current_token: past the end of the list advance() installs Token('EOF', 0, 0).
Current(toks, i) == IF i <= Len(toks) THEN toks[i] ELSE Token("EOF", 0, 0, None)

syntax_error(toks, i, message) ==
    [ok |-> FALSE, node |-> NoNode, i |-> i, line |-> Current(toks, i).line, message |-> message]

syntax_error_at_line(i, message, line) ==
    [ok |-> FALSE, node |-> NoNode, i |-> i, line |-> line, message |-> message]

error_messages(token_type) ==
    CASE token_type = "SEMICOLON" -> "Expected SEMICOLON after Statement"
      [] token_type = "LPAREN" -> "Expected ( after Statement"
      [] token_type = "RPAREN" -> "Expected ) after Expression"
      [] token_type = "LBRACE" -> "Expected { after Condition"
      [] token_type = "RBRACE" -> "Expected } after Block"
      [] token_type = "ASSIGN" -> "Expected = in Assignment Statement"
      [] OTHER -> "Expected " \o token_type

expect(toks, i, token_type) ==
    IF Current(toks, i).token_type = token_type
    THEN Ok(NoNode, i + 1)
    ELSE syntax_error(toks, i, error_messages(token_type))

ExpressionOperators ==
    {"PLUS", "MINUS", "EQUALS", "NOT_EQUALS", "LESS_THAN", "GREATER_THAN", "LESS_EQUAL", "GREATER_EQUAL"}

TermOperators == {"MULTIPLY", "DIVIDE"}

\* The one element of a singleton.  A call's result is bound once by ranging
\* over the singleton of it: The({ ...r... : r \in {call} }).
The(S) == CHOOSE v \in S : TRUE

RECURSIVE parse_expression(_, _), ExpressionLoop(_, _, _), parse_term(_, _), TermLoop(_, _, _),
          parse_factor(_, _)

parse_factor(toks, i) ==
    LET tok == Current(toks, i)
    IN  CASE tok.token_type = "NUMBER" -> Ok(NumberNode(tok.number), i + 1)
          [] tok.token_type = "IDENTIFIER" -> Ok(ASTNode("IDENTIFIER", tok.value, <<>>), i + 1)
          [] tok.token_type = "LPAREN" ->
                The({IF ~expr.ok THEN expr
                     ELSE LET rp == expect(toks, expr.i, "RPAREN")
                          IN  IF ~rp.ok THEN rp ELSE Ok(expr.node, rp.i)
                     : expr \in {parse_expression(toks, i + 1)}})
          [] OTHER -> syntax_error(toks, i, "Expected a number, identifier, or expression")

\* The while loop of parse_term, entered with the tree built so far.
TermLoop(toks, left, i) ==
    IF Current(toks, i).token_type \in TermOperators
    THEN The({IF ~right.ok THEN right
              ELSE TermLoop(toks, ASTNode("EXPR", Current(toks, i).value, <<left, right.node>>),
                            right.i)
              : right \in {parse_factor(toks, i + 1)}})
    ELSE Ok(left, i)

\* A term level without the loop on * and /.
parse_term_without_loop(toks, i) == parse_factor(toks, i)

parse_term(toks, i) ==
    The({IF ~left.ok THEN left ELSE TermLoop(toks, left.node, left.i)
         : left \in {parse_factor(toks, i)}})

\* An expression tier that groups to the right: the right operand is the
\* whole rest of the expression.
ExpressionLoop_to_the_right(toks, left, i) ==
    IF Current(toks, i).token_type \in ExpressionOperators
    THEN The({IF ~right.ok THEN right
              ELSE Ok(ASTNode("EXPR", Current(toks, i).value, <<left, right.node>>), right.i)
              : right \in {parse_expression(toks, i + 1)}})
    ELSE Ok(left, i)

\* The while loop of parse_expression, entered with the tree built so far.
ExpressionLoop(toks, left, i) ==
    IF Current(toks, i).token_type \in ExpressionOperators
    THEN The({IF ~right.ok THEN right
              ELSE ExpressionLoop(toks, ASTNode("EXPR", Current(toks, i).value, <<left, right.node>>),
                                  right.i)
              : right \in {parse_term(toks, i + 1)}})
    ELSE Ok(left, i)

parse_expression(toks, i) ==
    The({IF ~left.ok THEN left ELSE ExpressionLoop(toks, left.node, left.i)
         : left \in {parse_term(toks, i)}})

\* parse_assignment after its expression was parsed: "=", the target, ";".
AssignmentTail(toks, start_line, expr) ==
    LET eq == expect(toks, expr.i, "ASSIGN")
        target == Current(toks, eq.i)
        identifier_node == ASTNode("IDENTIFIER", target.value, <<>>)
    IN  IF ~eq.ok THEN eq
        ELSE IF target.token_type # "IDENTIFIER"
        THEN syntax_error(toks, eq.i, "Expected an identifier on the right side of '='")
        ELSE IF Current(toks, eq.i + 1).token_type # "SEMICOLON"
        THEN syntax_error_at_line(eq.i + 1, "Expected SEMICOLON after Statement", start_line)
        ELSE Ok(ASTNode("ASSIGN", "=", <<identifier_node, expr.node>>), eq.i + 2)

parse_assignment(toks, i) ==
    The({IF ~expr.ok THEN expr ELSE AssignmentTail(toks, Current(toks, i).line, expr)
         : expr \in {parse_expression(toks, i)}})

\* parse_print_statement after its expression was parsed: ")" and ";".
PrintTail(toks, expr) ==
    LET rp == expect(toks, expr.i, "RPAREN")
        sc == expect(toks, rp.i, "SEMICOLON")
    IN  IF ~rp.ok THEN rp
        ELSE IF ~sc.ok THEN sc
        ELSE Ok(ASTNode("PRINT", None, <<expr.node>>), sc.i)

parse_print_statement(toks, i) ==
    LET lp == expect(toks, i + 1, "LPAREN")
    IN  IF ~lp.ok THEN lp
        ELSE The({IF ~expr.ok THEN expr ELSE PrintTail(toks, expr)
                  : expr \in {parse_expression(toks, lp.i)}})

\* After the condition of an if or while was parsed: ")" and "{".
ConditionTail(toks, condition) ==
    LET rp == expect(toks, condition.i, "RPAREN")
        lb == expect(toks, rp.i, "LBRACE")
    IN  IF ~rp.ok THEN rp
        ELSE IF ~lb.ok THEN lb
        ELSE Ok(condition.node, lb.i)

\* "(" expression ")" "{": the head shared by parse_if_statement and
\* parse_while_statement, entered after the keyword was consumed.
ConditionHead(toks, i) ==
    LET lp == expect(toks, i, "LPAREN")
    IN  IF ~lp.ok THEN lp
        ELSE The({IF ~condition.ok THEN condition ELSE ConditionTail(toks, condition)
                  : condition \in {parse_expression(toks, lp.i)}})

RECURSIVE parse_statement(_, _), StatementListLoop(_, _, _)

\* The while loop of parse_statement_list, entered with the children so far.
StatementListLoop(toks, children, i) ==
    IF Current(toks, i).token_type \notin {"RBRACE", "EOF"}
    THEN The({IF ~stmt.ok THEN stmt
              ELSE StatementListLoop(toks, Append(children, stmt.node), stmt.i)
              : stmt \in {parse_statement(toks, i)}})
    ELSE Ok(ASTNode("BLOCK", None, children), i)

parse_statement_list(toks, i) == StatementListLoop(toks, <<>>, i)

\* "{" was consumed: statement list and "}".
BracedBody(toks, i) ==
    The({IF ~body.ok THEN body
         ELSE LET rb == expect(toks, body.i, "RBRACE")
              IN  IF ~rb.ok THEN rb ELSE Ok(body.node, rb.i)
         : body \in {parse_statement_list(toks, i)}})

\* parse_if_statement after "else" was consumed.
ElseTail(toks, condition, if_body, i) ==
    LET lb == expect(toks, i, "LBRACE")
    IN  IF ~lb.ok THEN lb
        ELSE The({IF ~else_body.ok THEN else_body
                  ELSE Ok(ASTNode("IF", None,
                                  <<condition, if_body, ASTNode("ELSE", None, <<else_body.node>>)>>),
                          else_body.i)
                  : else_body \in {BracedBody(toks, lb.i)}})

\* parse_if_statement after the condition and "{".
IfTail(toks, head) ==
    The({IF ~if_body.ok THEN if_body
         ELSE IF Current(toks, if_body.i).token_type = "ELSE"
         THEN ElseTail(toks, head.node, if_body.node, if_body.i + 1)
         ELSE Ok(ASTNode("IF", None, <<head.node, if_body.node>>), if_body.i)
         : if_body \in {BracedBody(toks, head.i)}})

parse_if_statement(toks, i) ==
    The({IF ~head.ok THEN head ELSE IfTail(toks, head) : head \in {ConditionHead(toks, i + 1)}})

\* parse_while_statement after the condition and "{".
WhileTail(toks, head) ==
    The({IF ~body.ok THEN body
         ELSE Ok(ASTNode("WHILE", None, <<head.node, body.node>>), body.i)
         : body \in {BracedBody(toks, head.i)}})

parse_while_statement(toks, i) ==
    The({IF ~head.ok THEN head ELSE WhileTail(toks, head) : head \in {ConditionHead(toks, i + 1)}})

parse_statement(toks, i) ==
    LET t == Current(toks, i).token_type
    IN  CASE t \in {"IDENTIFIER", "NUMBER"} -> parse_assignment(toks, i)
          [] t = "IF" -> parse_if_statement(toks, i)
          [] t = "WHILE" -> parse_while_statement(toks, i)
          [] t = "POUT" -> parse_print_statement(toks, i)
          [] OTHER -> syntax_error(toks, i, "Unexpected token")

\* The while loop of parse, entered with the PROGRAM node's children so far.
RECURSIVE ProgramLoop(_, _, _)
ProgramLoop(toks, children, i) ==
    IF Current(toks, i).token_type # "EOF"
    THEN The({IF ~statement.ok THEN statement
              ELSE ProgramLoop(toks, Append(children, statement.node), statement.i)
              : statement \in {parse_statement(toks, i)}})
    ELSE Ok(ASTNode("PROGRAM", None, children), i)

parse(toks) == ProgramLoop(toks, <<>>, 1)

-----------------------------------------------------------------------------
(* Semantic analysis (src/semantic.py).  A is the analyzer's state during  *)
(* the traversal: [symbols, errors].  An error message is kept as its kind *)
(* and the variable it names.                                              *)

\* Runtime values: Python int, bool, float and None.  A number is the fraction
\* n/d in lowest terms with d > 0 (d = 1 for int and bool); a float stands for
\* the exact quotient.
IntV(n) == [t |-> "int", n |-> n, d |-> 1]
BoolV(b) == [t |-> "bool", n |-> IF b THEN 1 ELSE 0, d |-> 1]
NoneV == [t |-> "None", n |-> 0, d |-> 1]
\* The outcome of an evaluation that raised TypeError.
TypeError == [t |-> "TypeError", n |-> 0, d |-> 1]

SemanticError(kind, name) == [kind |-> kind, name |-> name]

\* SymbolTable.declare: the table after it, and the error raised (or None).
declare(table, name) ==
    IF name \in DOMAIN table
    THEN [symbols |-> table, raised |-> TRUE]
    ELSE [symbols |-> [n \in DOMAIN table \cup {name} |->
                          IF n = name THEN NoneV ELSE table[n]],
          raised |-> FALSE]

\* SymbolTable.lookup raises iff the name is not in the table.
lookup_raises(table, name) == name \notin DOMAIN table

visit_identifier(node, A) ==
    IF lookup_raises(A.symbols, node.value)
    THEN [A EXCEPT !.errors = Append(@, SemanticError("undeclared", node.value))]
    ELSE A

RECURSIVE visit(_, _), VisitEach(_, _, _), VisitExprChildren(_, _, _)

\* for child in node.children: self.visit(child), from child k on.
VisitEach(children, k, A) ==
    IF k > Len(children) THEN A ELSE VisitEach(children, k + 1, visit(children[k], A))

generic_visit(node, A) == VisitEach(node.children, 1, A)

visit_program(node, A) == VisitEach(node.children, 1, A)

visit_assign(node, A) ==
    LET identifier_node == node.children[1]
        expr_node == node.children[2]
        d == declare(A.symbols, identifier_node.value)
        A1 == IF identifier_node.node_type # "IDENTIFIER" THEN A
              ELSE IF d.raised
              THEN [A EXCEPT !.errors = Append(@, SemanticError("already declared", identifier_node.value))]
              ELSE [A EXCEPT !.symbols = d.symbols]
    IN  visit(expr_node, A1)

\* The loop of visit_expr, from child k on.
VisitExprChildren(children, k, A) ==
    IF k > Len(children) THEN A
    ELSE LET child == children[k]
             A1 == IF child.node_type = "IDENTIFIER"
                   THEN visit_identifier(child, A)
                   ELSE visit(child, A)
         IN  VisitExprChildren(children, k + 1, A1)

\* A visit_expr that looks at its identifier operands only.
visit_expr_shallow(node, A) ==
    VisitExprChildren(SelectSeq(node.children, LAMBDA child : child.node_type = "IDENTIFIER"), 1, A)

visit_expr(node, A) == VisitExprChildren(node.children, 1, A)

visit_if(node, A) ==
    LET A1 == visit(node.children[1], A)
        A2 == visit(node.children[2], A1)
    IN  IF Len(node.children) > 2 THEN visit(node.children[3], A2) ELSE A2

visit_while(node, A) == visit(node.children[2], visit(node.children[1], A))

visit_print(node, A) == visit(node.children[1], A)

visit(node, A) ==
    CASE node.node_type = "PROGRAM" -> visit_program(node, A)
      [] node.node_type = "ASSIGN" -> visit_assign(node, A)
      [] node.node_type = "EXPR" -> visit_expr(node, A)
      [] node.node_type = "IF" -> visit_if(node, A)
      [] node.node_type = "WHILE" -> visit_while(node, A)
      [] node.node_type = "PRINT" -> visit_print(node, A)
      [] node.node_type = "IDENTIFIER" -> visit_identifier(node, A)
      [] OTHER -> generic_visit(node, A)

-----------------------------------------------------------------------------
(* Expression evaluation (SemanticAnalyzer.evaluate_expr) *)

Abs(n) == IF n < 0 THEN -n ELSE n

RECURSIVE GCD(_, _)
GCD(a, b) == IF b = 0 THEN a ELSE GCD(b, a % b)

Numeric(v) == v.t \in {"int", "bool", "float"}

\* The number n/d (d # 0) as a value of type t, in lowest terms.
Number(t, n, d) ==
    LET g == GCD(Abs(n), Abs(d))
        sign == IF d < 0 THEN -1 ELSE 1
    IN  [t |-> t, n |-> sign * (n \div g), d |-> sign * (d \div g)]

\* Type of the result of + - * on two numbers.
Arith(x, y) == IF x.t = "float" \/ y.t = "float" THEN "float" ELSE "int"

Truthy(v) == v.t # "None" /\ v.n # 0

\* Python's x == y and x < y on values.
PyEq(x, y) ==
    IF Numeric(x) /\ Numeric(y) THEN x.n * y.d = y.n * x.d ELSE x.t = y.t

PyLess(x, y) == x.n * y.d < y.n * x.d

\* A division that is not guarded against a zero divisor raises ZeroDivisionError.
Divide_unguarded(x, y) ==
    IF Numeric(x) /\ Numeric(y) /\ y.n # 0
    THEN Number("float", x.n * y.d, x.d * y.n) ELSE TypeError

\* '/': lambda x, y: x / y if y != 0 else 0
Divide(x, y) ==
    IF PyEq(y, IntV(0)) THEN IntV(0)
    ELSE IF Numeric(x) /\ Numeric(y)
    THEN Number("float", x.n * y.d, x.d * y.n) ELSE TypeError

\* operators[node.value](left, right)
operators(op, x, y) ==
    CASE op = "+" -> IF Numeric(x) /\ Numeric(y)
                     THEN Number(Arith(x, y), x.n * y.d + y.n * x.d, x.d * y.d) ELSE TypeError
      [] op = "-" -> IF Numeric(x) /\ Numeric(y)
                     THEN Number(Arith(x, y), x.n * y.d - y.n * x.d, x.d * y.d) ELSE TypeError
      [] op = "*" -> IF Numeric(x) /\ Numeric(y)
                     THEN Number(Arith(x, y), x.n * y.n, x.d * y.d) ELSE TypeError
      [] op = "/" -> Divide(x, y)
      [] op = ">" -> IF Numeric(x) /\ Numeric(y) THEN BoolV(PyLess(y, x)) ELSE TypeError
      [] op = "<" -> IF Numeric(x) /\ Numeric(y) THEN BoolV(PyLess(x, y)) ELSE TypeError
      [] op = ">=" -> IF Numeric(x) /\ Numeric(y) THEN BoolV(~PyLess(x, y)) ELSE TypeError
      [] op = "<=" -> IF Numeric(x) /\ Numeric(y) THEN BoolV(~PyLess(y, x)) ELSE TypeError
      [] op = "==" -> BoolV(PyEq(x, y))
      [] op = "!=" -> BoolV(~PyEq(x, y))

\* table.get(name, 0)
Get(table, name) == IF name \in DOMAIN table THEN table[name] ELSE IntV(0)

RECURSIVE evaluate_expr(_, _)
evaluate_expr(node, table) ==
    CASE node.node_type = "NUMBER" -> IntV(node.number)
      [] node.node_type = "IDENTIFIER" -> Get(table, node.value)
      [] node.node_type = "EXPR" ->
            LET left == evaluate_expr(node.children[1], table)
                right == evaluate_expr(node.children[2], table)
            IN  IF left = TypeError \/ right = TypeError THEN TypeError
                ELSE operators(node.value, left, right)
      [] OTHER -> NoneV

-----------------------------------------------------------------------------
(* Execution (SemanticAnalyzer.execute).  The recursion of execute_node is *)
(* kept as the list todo of nodes still to execute, each with its path     *)
(* (child indices from the root).  One action per executor method.         *)

Item(node, path) == [node |-> node, path |-> path]

ChildItems(it) ==
    [k \in 1..Len(it.node.children) |-> Item(it.node.children[k], Append(it.path, k))]

Event(it, value) ==
    [node_type |-> it.node.node_type, path |-> it.path, node |-> it.node, value |-> value]

Store(table, name, value) ==
    [n \in DOMAIN table \cup {name} |-> IF n = name THEN value ELSE table[n]]

\* The executor is at a node of one of these types; what it never writes stays.
Executing(node_types) ==
    /\ phase = "exec"
    /\ todo # <<>>
    /\ Head(todo).node.node_type \in node_types
    /\ UNCHANGED <<ast, failure, errors, analysis>>
    /\ UNCHANGED lexvars

\* History kept by every executor step.
Log(value) ==
    /\ trace' = Append(trace, Event(Head(todo), value))
    /\ prev' = [symbols |-> symbols, output |-> output]

\* An exception leaves execute: nothing more is executed.
Raise == phase' = "raised" /\ UNCHANGED <<symbols, output, todo, iters>>

execute_program ==
    /\ Executing({"PROGRAM"})
    /\ todo' = ChildItems(Head(todo)) \o Tail(todo)
    /\ Log(NoneV)
    /\ UNCHANGED <<symbols, output, iters, phase>>

\* BLOCK and ELSE have no executor of their own.
generic_execute ==
    /\ Executing({"BLOCK", "ELSE"})
    /\ todo' = ChildItems(Head(todo)) \o Tail(todo)
    /\ Log(NoneV)
    /\ UNCHANGED <<symbols, output, iters, phase>>

execute_assign ==
    /\ Executing({"ASSIGN"})
    /\ LET node == Head(todo).node
           identifier == node.children[1].value
           value == evaluate_expr(node.children[2], symbols)
       IN  /\ Log(value)
           /\ IF value = TypeError THEN Raise
              ELSE /\ symbols' = Store(symbols, identifier, value)
                   /\ todo' = Tail(todo)
                   /\ UNCHANGED <<output, iters, phase>>

execute_print ==
    /\ Executing({"PRINT"})
    /\ LET value == evaluate_expr(Head(todo).node.children[1], symbols)
       IN  /\ Log(value)
           /\ IF value = TypeError THEN Raise
              ELSE /\ output' = Append(output, value)
                   /\ todo' = Tail(todo)
                   /\ UNCHANGED <<symbols, iters, phase>>

\* An if that falls through from its then-block into its else-block.
IfBranch_falls_through(it, condition) ==
    (IF Truthy(condition) THEN <<ChildItems(it)[2]>> ELSE <<>>)
    \o (IF Len(it.node.children) > 2 THEN <<ChildItems(it)[3]>> ELSE <<>>)

\* The node execute_if goes on to execute for a condition, if any.
IfBranch(it, condition) ==
    IF Truthy(condition) THEN <<ChildItems(it)[2]>>
    ELSE IF Len(it.node.children) > 2 THEN <<ChildItems(it)[3]>>
    ELSE <<>>

execute_if ==
    /\ Executing({"IF"})
    /\ LET condition == evaluate_expr(Head(todo).node.children[1], symbols)
       IN  /\ Log(condition)
           /\ IF condition = TypeError THEN Raise
              ELSE /\ todo' = IfBranch(Head(todo), condition) \o Tail(todo)
                   /\ UNCHANGED <<symbols, output, iters, phase>>

\* A while that runs its body at most once and never tests again.
WhileBranch_without_retest(it, condition) ==
    IF Truthy(condition) THEN <<ChildItems(it)[2]>> ELSE <<>>

\* What execute_while does after a test of its condition: the body and then
\* the test again, or the loop is left.
WhileBranch(it, condition) ==
    IF Truthy(condition) THEN <<ChildItems(it)[2], it>> ELSE <<>>

execute_while ==
    /\ Executing({"WHILE"})
    /\ LET condition == evaluate_expr(Head(todo).node.children[1], symbols)
       IN  /\ Truthy(condition) => iters < MaxIter
           /\ Log(condition)
           /\ IF condition = TypeError THEN Raise
              ELSE /\ todo' = WhileBranch(Head(todo), condition) \o Tail(todo)
                   /\ iters' = IF Truthy(condition) THEN iters + 1 ELSE iters
                   /\ UNCHANGED <<symbols, output, phase>>

\* execute_node(self.ast) has returned; execute prints the output and returns.
ExecuteReturn ==
    /\ phase = "exec"
    /\ todo = <<>>
    /\ phase' = "done"
    /\ UNCHANGED <<symbols, output, todo, iters, trace, prev>>
    /\ UNCHANGED <<ast, failure, errors, analysis>>
    /\ UNCHANGED lexvars

NextExec ==
    \/ execute_program
    \/ generic_execute
    \/ execute_assign
    \/ execute_print
    \/ execute_if
    \/ execute_while
    \/ ExecuteReturn

EmptyTable == [n \in {} |-> NoneV]

NoFailure == [kind |-> None, line |-> 0, message |-> ""]

\* SemanticAnalyzer.__init__(ast), with the histories empty.
NewAnalyzer(node) ==
    /\ ast = node
    /\ failure = NoFailure
    /\ symbols = EmptyTable
    /\ errors = <<>>
    /\ analysis = None
    /\ output = <<>>
    /\ todo = <<>>
    /\ iters = 0
    /\ trace = <<>>
    /\ prev = [symbols |-> EmptyTable, output |-> <<>>]

\* SemanticAnalyzer.analyze
Analyze ==
    /\ phase = "constructed"
    /\ LET A == visit(ast, [symbols |-> symbols, errors |-> errors])
       IN  /\ symbols' = A.symbols
           /\ errors' = A.errors
           /\ analysis' = IF A.errors = <<>> THEN "True" ELSE "False"
    /\ phase' = "analyzed"
    /\ UNCHANGED <<ast, failure, output, todo, iters, trace, prev>>
    /\ UNCHANGED lexvars

StartExecute ==
    /\ todo' = <<Item(ast, <<>>)>>
    /\ phase' = "exec"
    /\ UNCHANGED <<ast, failure, symbols, errors, analysis, output, iters, trace, prev>>
    /\ UNCHANGED lexvars

\* SemanticAnalyzer.execute, callable on the object whatever analyze returned
\* and whether or not it was called.
Execute ==
    /\ phase \in {"constructed", "analyzed"}
    /\ StartExecute

\* process_code calls execute only when analyze returned True.
ProcessExecute ==
    /\ phase = "analyzed"
    /\ analysis = "True"
    /\ StartExecute

\* process_code: Parser(tokens).parse() and SemanticAnalyzer(ast).  An empty
\* token list makes Parser.__init__ raise IndexError; every exception is caught.
Parse ==
    /\ phase = "lexed"
    /\ IF result = <<>>
       THEN /\ failure' = [kind |-> "IndexError", line |-> 0, message |-> ""]
            /\ phase' = "failed"
            /\ ast' = ast
       ELSE \E r \in {parse(result)} :
                IF r.ok
                THEN /\ ast' = r.node
                     /\ phase' = "constructed"
                     /\ failure' = failure
                ELSE /\ failure' = [kind |-> "Syntax error", line |-> r.line, message |-> r.message]
                     /\ phase' = "failed"
                     /\ ast' = ast
    /\ UNCHANGED <<symbols, errors, analysis, output, todo, iters, trace, prev>>
    /\ UNCHANGED lexvars



-----------------------------------------------------------------------------
(* Specification of the lexer alone: tokenize on every short text over an  *)
(* alphabet with one character of each class the scanner distinguishes.    *)

Alphabet == {"1", "a", "_", " ", "\n", "#", "=", "!", "<", ";", "@"}

Texts == UNION {[1..n -> Alphabet] : n \in 0..MaxLen}

\* tokenize: Lexer(StringIO(source_code)), whose constructor advances once.
StartTokenize(text) ==
    /\ source = text
    /\ lexer = advance(NewLexer)
    /\ tokens = <<>>
    /\ tok_at = <<>>
    /\ err_at = <<>>
    /\ result = <<>>
    /\ phase = "scan"
    /\ NewAnalyzer(NoNode)

InitLex == \E text \in Texts : StartTokenize(text)

SpecLex == InitLex /\ [][NextLex]_vars

-----------------------------------------------------------------------------
(* Source texts run through the whole of process_code *)

\* the end-to-end example: 5 = x; x * 3 + x = y; if (y > 10) { pout(y); } else { pout(x); }
Example ==
    <<"5", " ", "=", " ", "x", ";", " ", "x", " ", "*", " ", "3", " ", "+", " ", "x", " ", "=",
      " ", "y", ";", " ", "i", "f", " ", "(", "y", " ", ">", " ", "1", "0", ")", " ", "{", " ",
      "p", "o", "u", "t", "(", "y", ")", ";", " ", "}", " ", "e", "l", "s", "e", " ", "{", " ",
      "p", "o", "u", "t", "(", "x", ")", ";", " ", "}">>

\* the same on three lines: 5 = x;\nx * 3 + x = y;\nif (y > 10) { pout(y); } else { pout(x); }\n
ExampleLines ==
    <<"5", " ", "=", " ", "x", ";", "\n", "x", " ", "*", " ", "3", " ", "+", " ", "x", " ",
      "=", " ", "y", ";", "\n", "i", "f", " ", "(", "y", " ", ">", " ", "1", "0", ")", " ",
      "{", " ", "p", "o", "u", "t", "(", "y", ")", ";", " ", "}", " ", "e", "l", "s", "e", " ",
      "{", " ", "p", "o", "u", "t", "(", "x", ")", ";", " ", "}", "\n">>

\* division by a variable holding zero: 0 = x; 5 / x = y; pout(y);
DivisionText ==
    <<"0", " ", "=", " ", "x", ";", " ", "5", " ", "/", " ", "x", " ", "=", " ", "y", ";", " ",
      "p", "o", "u", "t", "(", "y", ")", ";">>

\* one name assigned twice: 5 = x; 6 = x;
TwiceText ==
    <<"5", " ", "=", " ", "x", ";", " ", "6", " ", "=", " ", "x", ";">>

\* a comment, a loop never entered, a loop never left: # loop\n1 = n; while (n <= 0) { pout(n); } while (n) { pout(n); }
LoopText ==
    <<"#", " ", "l", "o", "o", "p", "\n", "1", " ", "=", " ", "n", ";", " ", "w", "h", "i",
      "l", "e", " ", "(", "n", " ", "<", "=", " ", "0", ")", " ", "{", " ", "p", "o", "u", "t",
      "(", "n", ")", ";", " ", "}", " ", "w", "h", "i", "l", "e", " ", "(", "n", ")", " ", "{",
      " ", "p", "o", "u", "t", "(", "n", ")", ";", " ", "}">>

\* a name declared in a branch not taken: if (0) { 5 = x; } pout(x); x + 1 = y;
BranchText ==
    <<"i", "f", " ", "(", "0", ")", " ", "{", " ", "5", " ", "=", " ", "x", ";", " ", "}", " ",
      "p", "o", "u", "t", "(", "x", ")", ";", " ", "x", " ", "+", " ", "1", " ", "=", " ", "y",
      ";">>

\* an invalid character: 1 = a @;
InvalidText ==
    <<"1", " ", "=", " ", "a", " ", "@", ";">>

\* digits run into letters: 12ab = x;
DigitLetterText ==
    <<"1", "2", "a", "b", " ", "=", " ", "x", ";">>

\* an assignment without target: 1 = ;
NoTargetText ==
    <<"1", " ", "=", " ", ";">>

SourceTexts ==
    {Example,
     ExampleLines,
     DivisionText,
     TwiceText,
     LoopText,
     BranchText,
     InvalidText,
     DigitLetterText,
     NoTargetText}

Init == \E text \in SourceTexts : StartTokenize(text)

Next ==
    \/ NextLex
    \/ Parse
    \/ Analyze
    \/ ProcessExecute
    \/ NextExec

\* process_code on a source text: tokenize, parse, analyze, execute.
Spec == Init /\ [][Next]_vars

-----------------------------------------------------------------------------
(* Programs handed to a SemanticAnalyzer: syntax trees of the shapes the    *)
(* parser builds.                                                          *)

Num(n) == NumberNode(n)
Id(name) == ASTNode("IDENTIFIER", name, <<>>)
Bin(op, left, right) == ASTNode("EXPR", op, <<left, right>>)
Assign(name, expr) == ASTNode("ASSIGN", "=", <<Id(name), expr>>)
Pout(expr) == ASTNode("PRINT", None, <<expr>>)
Block(stmts) == ASTNode("BLOCK", None, stmts)
If(condition, if_body) == ASTNode("IF", None, <<condition, if_body>>)
IfElse(condition, if_body, else_body) ==
    ASTNode("IF", None, <<condition, if_body, ASTNode("ELSE", None, <<else_body>>)>>)
While(condition, body) == ASTNode("WHILE", None, <<condition, body>>)
Program(stmts) == ASTNode("PROGRAM", None, stmts)

Names == {"x", "y"}
ArithOps == {"+", "-", "*", "/"}
CompareOps == {">", "<", ">=", "<=", "==", "!="}

Atoms == {Num(n) : n \in 0..MaxNum} \cup {Id(v) : v \in Names}

\* Values assigned and printed: atoms, arithmetic on x and literals, comparisons
\* of x, and two expressions nested two deep (left from precedence, right from
\* parentheses).
ValueExprs ==
    Atoms
    \cup {Bin(op, a, b) : op \in ArithOps, a \in {Id("x"), Num(MaxNum)}, b \in {Id("x"), Num(0), Num(1)}}
    \cup {Bin(op, Id("x"), Num(0)) : op \in CompareOps}
    \cup {Bin("+", Bin("*", Id("x"), Num(1)), Id("y")), Bin("-", Num(0), Bin("+", Id("y"), Id("x")))}

SimpleStmts ==
    {Assign(v, e) : v \in Names, e \in ValueExprs} \cup {Pout(e) : e \in ValueExprs}

Conditions ==
    {Num(0), Num(1), Id("x"), Bin("<", Id("x"), Num(MaxNum)), Bin("==", Id("x"), Num(0)),
     Bin("+", Id("x"), Num(1))}

BodyStmts ==
    {Assign("x", Bin("+", Id("x"), Num(1))), Assign("x", Num(1)), Assign("y", Num(1)),
     Pout(Id("x")), Pout(Num(1))}

Blocks == {Block(<<>>)} \cup {Block(<<s>>) : s \in BodyStmts}

Ifs ==
    {If(c, b) : c \in Conditions, b \in Blocks}
    \cup {IfElse(c, b1, b2) : c \in Conditions, b1 \in Blocks, b2 \in Blocks}

Whiles == {While(c, b) : c \in Conditions, b \in Blocks}

\* A loop entered again by an outer loop, and a loop inside a branch.
Nested ==
    {While(Bin("<", Id("y"), Num(1)), Block(<<w, Assign("y", Bin("+", Id("y"), Num(1)))>>)) : w \in Whiles}
    \cup {IfElse(Id("y"), Block(<<Pout(Num(0))>>), Block(<<w>>)) : w \in Whiles}

Compound == Ifs \cup Whiles \cup Nested

Before == {Assign(v, Num(n)) : v \in Names, n \in 0..MaxNum}
After == {Pout(Id("x")), Assign("y", Id("x")), Pout(Bin("+", Id("x"), Num(1)))}

\* The trees the parser builds for Example, DivisionText and BranchText.
ExampleTree ==
    Program(<<Assign("x", Num(5)),
              Assign("y", Bin("+", Bin("*", Id("x"), Num(3)), Id("x"))),
              IfElse(Bin(">", Id("y"), Num(10)), Block(<<Pout(Id("y"))>>), Block(<<Pout(Id("x"))>>))>>)

DivisionTree ==
    Program(<<Assign("x", Num(0)), Assign("y", Bin("/", Num(5), Id("x"))), Pout(Id("y"))>>)

BranchTree ==
    Program(<<If(Num(0), Block(<<Assign("x", Num(5))>>)), Pout(Id("x")),
              Assign("y", Bin("+", Id("x"), Num(1)))>>)

Programs ==
    {Program(<<s>>) : s \in SimpleStmts \cup Compound}
    \cup {Program(<<s1, s2>>) : s1 \in SimpleStmts, s2 \in SimpleStmts}
    \cup {Program(<<s, c>>) : s \in Before, c \in Compound}
    \cup {Program(<<c, s>>) : c \in Compound, s \in After}
    \cup {ExampleTree, DivisionTree, BranchTree}

\* No text was tokenized: the lexer's variables are idle.
NoLexer ==
    /\ source = <<>>
    /\ lexer = NewLexer
    /\ tokens = <<>>
    /\ tok_at = <<>>
    /\ err_at = <<>>
    /\ result = <<>>

InitSem ==
    \E program \in Programs :
        /\ NoLexer
        /\ NewAnalyzer(program)
        /\ phase = "constructed"

NextSem ==
    \/ Analyze
    \/ Execute
    \/ NextExec

\* A SemanticAnalyzer built on a program, its methods analyze and execute.
SpecSem == InitSem /\ [][NextSem]_vars

-----------------------------------------------------------------------------
(* Expressions run through tokenize and Parser.parse: three factors joined *)
(* by two operators, as the argument of pout (a statement cannot begin     *)
(* with a parenthesis: parse_statement dispatches on NUMBER or IDENTIFIER). *)

TierOps == {"+", "-", "==", "!=", "<", ">", "<=", ">="}
FactorOps == {"*", "/"}

\* The characters of an operator.
OpText(op) ==
    CASE op = "==" -> <<"=", "=">>
      [] op = "!=" -> <<"!", "=">>
      [] op = "<=" -> <<"<", "=">>
      [] op = ">=" -> <<">", "=">>
      [] OTHER -> <<op>>

\* Factors as written: an identifier, a number, a parenthesized expression.
FactorTexts == {<<"x">>, <<"1">>, <<"(", "y", " ", "-", " ", "1", ")">>}

\* pout(a op1 b op2 c);
ExprText(a, op1, b, op2, c) ==
    <<"p", "o", "u", "t", "(">>
      \o a \o <<" ">> \o OpText(op1) \o <<" ">> \o b \o <<" ">> \o OpText(op2) \o <<" ">> \o c
      \o <<")", ";">>

ExprTexts ==
    {ExprText(a, op1, b, op2, c) :
        a \in FactorTexts, op1 \in TierOps \cup FactorOps, b \in FactorTexts,
        op2 \in TierOps \cup FactorOps, c \in FactorTexts}

\* The expression texts, and the source texts that have a comment or an error.
InitParse == \E text \in ExprTexts \cup SourceTexts : StartTokenize(text)

NextParse ==
    \/ NextLex
    \/ Parse

\* tokenize and Parser.parse on a source text.
SpecParse == InitParse /\ [][NextParse]_vars

-----------------------------------------------------------------------------
(* Pipeline, analyzer and executor claims *)

Undeclared(table_errors) == SelectSeq(table_errors, LAMBDA e : e.kind = "undeclared")

IsPrefix(p, q) == Len(p) <= Len(q) /\ SubSeq(q, 1, Len(p)) = p

\* The path of the parent of the node at a path.
Front(path) == SubSeq(path, 1, Len(path) - 1)

RECURSIVE NodeAt(_, _)
NodeAt(node, path) ==
    IF path = <<>> THEN node ELSE NodeAt(node.children[Head(path)], Tail(path))

\* An event of the executor evaluated an expression: which one.
Evaluates(e) == e.node_type \in {"ASSIGN", "PRINT", "IF", "WHILE"}

ExprOf(e) == IF e.node_type = "ASSIGN" THEN e.node.children[2] ELSE e.node.children[1]

\* Event i is the then-block or the body executed for the IF or WHILE at path p.
IsBody(i, p, parent_type) ==
    /\ trace[i].node_type = "BLOCK"
    /\ trace[i].path = Append(p, 2)
    /\ NodeAt(ast, p).node_type = parent_type

\* C1: the pipeline on the example source parses to a PROGRAM with the three
\* children ASSIGN, ASSIGN, IF, passes analysis with no error, and executes to
\* the store x = 5, y = 20 and the output [20]; no stage fails on the way.
C1_ExamplePipeline ==
    source = Example =>
        /\ phase \notin {"failed", "raised"}
        /\ phase \in {"constructed", "analyzed", "exec", "done"} =>
              /\ ast.node_type = "PROGRAM"
              /\ Len(ast.children) = 3
              /\ <<ast.children[1].node_type, ast.children[2].node_type, ast.children[3].node_type>>
                    = <<"ASSIGN", "ASSIGN", "IF">>
        /\ phase \in {"analyzed", "exec", "done"} => errors = <<>> /\ analysis = "True"
        /\ phase = "done" =>
              /\ DOMAIN symbols = {"x", "y"}
              /\ symbols["x"] = IntV(5)
              /\ symbols["y"] = IntV(20)
              /\ output = <<IntV(20)>>

C1_ExampleRan ==
    /\ source = Example
    /\ phase = "done"
    /\ Len(result) = 34
    /\ output = <<IntV(20)>>

\* C2: assigning a name that an earlier assignment statement already assigned is
\* accepted: analyze appends no "already declared" error, and analysis passes
\* when there is no undeclared read.
C2_ReassignmentIsAccepted ==
    phase = "analyzed" =>
        /\ \A j \in 1..Len(errors) : errors[j].kind # "already declared"
        /\ Undeclared(errors) = <<>> => analysis = "True"

\* Event i reads, as its whole expression, a name no executed assignment wrote.
ReadsUnwritten(i) ==
    /\ Evaluates(trace[i])
    /\ ExprOf(trace[i]).node_type = "IDENTIFIER"
    /\ \A j \in 1..(i - 1) :
          ~(/\ trace[j].node_type = "ASSIGN"
            /\ trace[j].node.children[1].value = ExprOf(trace[i]).value
            /\ trace[j].value # TypeError)

\* C3: on a tree that passed analysis execute never raises, and a read of a
\* name that no executed assignment has written yields the integer 0.
C3_ExecuteIsTotalAfterAnalysis ==
    analysis = "True" =>
        /\ phase # "raised"
        /\ \A i \in 1..Len(trace) : ReadsUnwritten(i) => trace[i].value = IntV(0)

\* C4: a division whose left operand is an integer and whose right operand
\* evaluates to 0 yields the integer 0 and raises nothing; the program
\* 0 = x; 5 / x = y; pout(y); stores y = 0 and outputs 0.
C4_DivisionByZeroYieldsZero ==
    /\ trace # <<>> =>
          LET e == trace[Len(trace)]
          IN  (/\ Evaluates(e)
               /\ ExprOf(e).node_type = "EXPR"
               /\ ExprOf(e).value = "/"
               /\ evaluate_expr(ExprOf(e).children[1], prev.symbols).t = "int"
               /\ LET b == evaluate_expr(ExprOf(e).children[2], prev.symbols)
                  IN  Numeric(b) /\ b.n = 0)
              => e.value = IntV(0) /\ phase # "raised"
    /\ ast = DivisionTree /\ phase = "done" =>
          /\ symbols["y"] = IntV(0)
          /\ output = <<IntV(0)>>

C4_DividedByZero ==
    /\ ast = DivisionTree
    /\ phase = "done"
    /\ trace[3].value = IntV(0)
    /\ output = <<IntV(0)>>

EntryOf(i, p) ==
    CHOOSE m \in 1..i :
        /\ \A k \in m..i : IsPrefix(p, trace[k].path)
        /\ m > 1 => ~IsPrefix(p, trace[m - 1].path)

Tests(m, i, p) == {k \in m..i : trace[k].node_type = "WHILE" /\ trace[k].path = p}

Bodies(m, i, p) == {k \in m..i : trace[k].path = Append(p, 2)}

\* C6: a WHILE tests its condition on the current store before every
\* iteration; a truthy test is followed by the body and the body by the next
\* test, a falsy test ends the loop and changes neither store nor output, and a
\* loop that ended after k bodies made exactly k + 1 tests.
C6_WhileTestsBeforeEveryIteration ==
    /\ \A i \in 1..Len(trace) :
          (trace[i].node_type = "WHILE" /\ trace[i].value # TypeError) =>
              LET p == trace[i].path
                  m == EntryOf(i, p)
              IN  /\ i = Len(trace) =>
                        /\ trace[i].value = evaluate_expr(trace[i].node.children[1], prev.symbols)
                        /\ symbols = prev.symbols
                        /\ output = prev.output
                  /\ Truthy(trace[i].value) =>
                        IF i < Len(trace)
                        THEN trace[i + 1].path = Append(p, 2)
                        ELSE phase = "exec" /\ todo # <<>> /\ Head(todo).path = Append(p, 2)
                  /\ ~Truthy(trace[i].value) =>
                        /\ i < Len(trace) => ~IsPrefix(p, trace[i + 1].path)
                        /\ i = Len(trace) /\ todo # <<>> => ~IsPrefix(p, Head(todo).path)
                        /\ Cardinality(Tests(m, i, p)) = Cardinality(Bodies(m, i, p)) + 1
                        /\ \A k \in Tests(m, i, p) \ {i} : Truthy(trace[k].value)
    /\ \A j \in 1..Len(trace) :
          IsBody(j, Front(trace[j].path), "WHILE") =>
              LET p == Front(trace[j].path)
                  after == {k \in (j + 1)..Len(trace) : ~IsPrefix(trace[j].path, trace[k].path)}
              IN  /\ j > 1
                  /\ trace[j - 1].node_type = "WHILE"
                  /\ trace[j - 1].path = p
                  /\ Truthy(trace[j - 1].value)
                  /\ after # {} =>
                        LET k == CHOOSE n \in after : \A n2 \in after : n <= n2
                        IN  trace[k].node_type = "WHILE" /\ trace[k].path = p
                  /\ after = {} => phase # "done"

\* A loop ran its body twice, its third test was falsy, and the program ended.
C6_LoopRanTwice ==
    /\ phase = "done"
    /\ \E i \in 1..Len(trace) :
          /\ trace[i].node_type = "WHILE"
          /\ ~Truthy(trace[i].value)
          /\ Cardinality(Bodies(EntryOf(i, trace[i].path), i, trace[i].path)) >= 2

\* The declarations and reads of a tree in the order of the text: an
\* assignment's target counts before its value.
RECURSIVE Sites(_), SitesEach(_, _)
SitesEach(children, k) ==
    IF k > Len(children) THEN <<>> ELSE Sites(children[k]) \o SitesEach(children, k + 1)

Sites(node) ==
    CASE node.node_type = "IDENTIFIER" -> <<[site |-> "read", name |-> node.value]>>
      [] node.node_type = "ASSIGN" ->
            <<[site |-> "target", name |-> node.children[1].value]>> \o Sites(node.children[2])
      [] OTHER -> SitesEach(node.children, 1)

\* The read sites whose name is not in the symbol table when they are visited.
Unresolved(sites) ==
    LET unresolved == {k \in 1..Len(sites) :
                          /\ sites[k].site = "read"
                          /\ \A j \in 1..(k - 1) : ~(sites[j].site = "target" /\ sites[j].name = sites[k].name)}
        Pick[k \in 0..Len(sites)] ==
            IF k = 0 THEN <<>>
            ELSE IF k \in unresolved THEN Append(Pick[k - 1], SemanticError("undeclared", sites[k].name))
            ELSE Pick[k - 1]
    IN  Pick[Len(sites)]

\* C7: analyze visits the whole tree and appends one "undeclared" error for
\* each read site whose name is not in the symbol table when visited, in the
\* order of the text: none twice, none skipped, whatever block it is in.
C7_OneErrorPerUnresolvedRead ==
    phase = "analyzed" => Undeclared(errors) = Unresolved(Sites(ast))

\* Reads were reported in a condition, a then-block and an else-block at once.
C7_ErrorsInEveryBlock ==
    /\ phase = "analyzed"
    /\ Len(ast.children) = 1
    /\ ast.children[1].node_type = "IF"
    /\ Len(ast.children[1].children) = 3
    /\ Len(Undeclared(errors)) >= 3

\* The assignment targets and reads of a tree in document order: MiniLang
\* writes the value of an assignment before its target (value = target;).
RECURSIVE TextSites(_), TextSitesEach(_, _)
TextSitesEach(children, k) ==
    IF k > Len(children) THEN <<>> ELSE TextSites(children[k]) \o TextSitesEach(children, k + 1)

TextSites(node) ==
    CASE node.node_type = "IDENTIFIER" -> <<[site |-> "read", name |-> node.value]>>
      [] node.node_type = "ASSIGN" ->
            TextSites(node.children[2]) \o <<[site |-> "target", name |-> node.children[1].value]>>
      [] OTHER -> TextSitesEach(node.children, 1)

\* C11: declare-before-use: when analyze returns true every read names the
\* target of an assignment statement strictly earlier in the text, and a read
\* in the value of the assignment that first declares its name is reported as
\* undeclared like any other read without an earlier target.
C11_DeclareBeforeUse ==
    phase = "analyzed" =>
        /\ analysis = "True" => Unresolved(TextSites(ast)) = <<>>
        /\ Undeclared(errors) = Unresolved(TextSites(ast))

\* The tree a factor stands for: itself, or the expression in the parentheses.
FactorTree(text) ==
    CASE text = <<"x">> -> Id("x")
      [] text = <<"1">> -> Num(1)
      [] OTHER -> Bin("-", Id("y"), Num(1))

\* The tree of a op1 b op2 c with one left-associative tier for + - and the
\* comparisons, and * / binding tighter, left-associative too.
Grouped(a, op1, b, op2, c) ==
    IF op1 \in TierOps /\ op2 \in FactorOps
    THEN Bin(op1, FactorTree(a), Bin(op2, FactorTree(b), FactorTree(c)))
    ELSE Bin(op2, Bin(op1, FactorTree(a), FactorTree(b)), FactorTree(c))

\* C12: a op1 b op2 c parses as ((a op1 b) op2 c) for any two operators of the
\* tier + - == != < > <= >=, arithmetic or comparison; * and / bind tighter
\* than that tier and group to the left among themselves; a parenthesized
\* expression is one factor.
C12_OneTierLeftAssociative ==
    phase \in {"constructed", "failed"} =>
        \A a \in FactorTexts, b \in FactorTexts, c \in FactorTexts :
            \A op1 \in TierOps \cup FactorOps, op2 \in TierOps \cup FactorOps :
                source = ExprText(a, op1, b, op2, c) =>
                    /\ phase = "constructed"
                    /\ ast = Program(<<Pout(Grouped(a, op1, b, op2, c))>>)

\* pout(x < (y - 1) + 1); was parsed: a comparison and then an addition, with a
\* parenthesized factor in the middle.
C12_ComparisonThenSum ==
    /\ source = ExprText(<<"x">>, "<", <<"(", "y", " ", "-", " ", "1", ")">>, "+", <<"1">>)
    /\ phase = "constructed"
    /\ ast.children[1].children[1].value = "+"
    /\ ast.children[1].children[1].children[1].value = "<"

\* C13: an ASSIGN whose value is a + b, a - b, a * b or a / b with integer
\* operands stores an integer, and for / with b # 0 the integer quotient.
C13_ArithmeticStaysInteger ==
    trace # <<>> =>
        LET e == trace[Len(trace)]
            a == evaluate_expr(ExprOf(e).children[1], prev.symbols)
            b == evaluate_expr(ExprOf(e).children[2], prev.symbols)
        IN  (/\ e.node_type = "ASSIGN"
             /\ ExprOf(e).node_type = "EXPR"
             /\ ExprOf(e).value \in ArithOps
             /\ a.t = "int"
             /\ b.t = "int")
            => /\ e.value.t = "int"
               /\ symbols[e.node.children[1].value].t = "int"
               /\ (ExprOf(e).value = "/" /\ b.n # 0) => e.value = IntV(a.n \div b.n)

-----------------------------------------------------------------------------
(* Lexer claims *)

\* Line and column (1-based) of the character at source index i.
LineOf(i) == 1 + Cardinality({k \in 1..(i - 1) : source[k] = "\n"})

LastNewlineBefore(i) ==
    LET nl == {k \in 1..(i - 1) : source[k] = "\n"}
    IN  IF nl = {} THEN 0 ELSE CHOOSE k \in nl : \A j \in nl : j <= k

ColumnOf(i) == i - LastNewlineBefore(i)

\* C8: every step of the scanner loop consumes at least one character or ends
\* the scan with END_OF_INPUT; in particular a step that records an error
\* advances past the offending character, so the scan reaches end of input.
C8_EveryScanStepAdvances ==
    [][phase = "scan" => (Remaining(lexer') < Remaining(lexer) \/ phase' = "lexed")]_vars

\* C9: every token carries the line and column of the first character of its
\* lexeme, and every lexical error the column of the first character of the
\* offending lexeme.
C9_PositionsAreLexemeStarts ==
    /\ \A i \in 1..Len(tok_at) :
          /\ tokens[i].line = LineOf(tok_at[i])
          /\ tokens[i].column = ColumnOf(tok_at[i])
    /\ \A j \in 1..Len(err_at) : lexer.errors[j].column = ColumnOf(err_at[j])

\* C10: a lexical error never stops the scan: once recorded, the scanner is past
\* the offending lexeme, errors are recorded once each in source order, and
\* tokenize returns [] when there are errors, else tokens ending in the only EOF.
C10_ErrorsNeverStopTheScan ==
    /\ \A j \in 1..Len(err_at) : lexer.current_char = "" \/ err_at[j] < CurIndex(lexer)
    /\ \A j, k \in 1..Len(err_at) : j < k => err_at[j] < err_at[k]
    /\ phase = "lexed" /\ lexer.errors # <<>> => result = <<>>
    /\ phase = "lexed" /\ lexer.errors = <<>> =>
          /\ result # <<>>
          /\ result[Len(result)].token_type = "EOF"
          /\ \A i \in 1..(Len(result) - 1) : result[i].token_type # "EOF"

=============================================================================
